---------------------------- MODULE Spec2Model ----------------------------
(***************************************************************************)
(* A model of the JobMate ML API (src/main.py): the blocking artifact load *)
(* at import time, the before_request auth gate, the six routes, and the   *)
(* text normalizer basic_preprocess.                                        *)
(*                                                                         *)
(* Strings are sequences of one-character strings.  Floating-point         *)
(* similarity scores are integers in units of 1e-5.                        *)
(***************************************************************************)
EXTENDS Integers, Sequences, FiniteSets, TLC

VARIABLES
    pc,                       \* position of the module-level code (lines 44-85, 209-211)
    BUCKET_NAME,              \* line 24
    API_TOKEN,                \* line 23
    gcs,                      \* what the bucket holds (the environment of lines 48-74)
    unsupervised_vectorizer,  \* line 60
    supervised_vectorizer,    \* line 61
    classifier,               \* line 62
    job_metadata,             \* lines 67, 77-79
    job_vectors,              \* line 74
    conn,                     \* the requests being served, one per worker thread
    text,                     \* the normalizer's input   (normalizer specification)
    passes                    \* its successive outputs   (normalizer specification)

vars == <<pc, BUCKET_NAME, API_TOKEN, gcs, unsupervised_vectorizer,
          supervised_vectorizer, classifier, job_metadata, job_vectors,
          conn, text, passes>>

artifacts == <<API_TOKEN, unsupervised_vectorizer, supervised_vectorizer,
               classifier, job_metadata, job_vectors>>

---------------------------------------------------------------------------
(* Bounds                                                                  *)

MaxLen == 5         \* longest input string given to the normalizer
MaxJobs == 6        \* most rows of the job-vector matrix (ranking specification)
MaxRows == 3        \* most rows of the metadata table (lookup specification)
MaxId == 2          \* largest id in the id column (lookup specification)

---------------------------------------------------------------------------
(* Strings                                                                 *)

Letters == {"a", "b"}
\* characters matched by \s in a Python 3 str pattern (those of the alphabet)
Whitespace == {" ", "\t", "\n"}
\* the characters the inputs are made of: lowercase and uppercase letters,
\* a digit, punctuation and three kinds of whitespace
Alphabet == {"a", "B", "7", "!", " ", "\t", "\n"}

RECURSIVE SeqsUpTo(_, _)
SeqsUpTo(S, n) ==
    IF n = 0 THEN {<<>>}
    ELSE LET shorter == SeqsUpTo(S, n - 1)
         IN  shorter \cup {Append(q, c) : q \in {r \in shorter : Len(r) = n - 1}, c \in S}

\* str.lower() on one character (line 92)
LowerChar(c) == CASE c = "A" -> "a" [] c = "B" -> "b" [] OTHER -> c

\* text.lower() (line 92)
Lower(str) == [i \in 1..Len(str) |-> LowerChar(str[i])]

\* re.sub(r'[^a-z\s]', '', text) (line 93)
RECURSIVE StripNonAlpha(_)
StripNonAlpha(str) ==
    IF str = <<>> THEN <<>>
    ELSE IF Head(str) \in Letters \cup Whitespace
         THEN <<Head(str)>> \o StripNonAlpha(Tail(str))
         ELSE StripNonAlpha(Tail(str))

\* re.sub(r'\s+', ' ', text) (line 94): every maximal run of whitespace
\* becomes one space
RECURSIVE CollapseWs(_)
CollapseWs(str) ==
    IF str = <<>> THEN <<>>
    ELSE IF Head(str) \in Whitespace
         THEN IF Len(str) > 1 /\ str[2] \in Whitespace
              THEN CollapseWs(Tail(str))
              ELSE <<" ">> \o CollapseWs(Tail(str))
         ELSE <<Head(str)>> \o CollapseWs(Tail(str))

\* str.strip() (line 94): drops leading and trailing whitespace
RECURSIVE LStrip(_)
LStrip(str) ==
    IF str # <<>> /\ Head(str) \in Whitespace THEN LStrip(Tail(str)) ELSE str

RECURSIVE RStrip(_)
RStrip(str) ==
    IF str # <<>> /\ str[Len(str)] \in Whitespace
    THEN RStrip(SubSeq(str, 1, Len(str) - 1))
    ELSE str

Strip(str) == RStrip(LStrip(str))

\* mutant: the whitespace is collapsed before the other characters are removed
basic_preprocess_swapped(str) == Strip(StripNonAlpha(CollapseWs(Lower(str))))

\* mutant: the final .strip() is forgotten
basic_preprocess_nostrip(str) == CollapseWs(StripNonAlpha(Lower(str)))

\* basic_preprocess (lines 90-95)
basic_preprocess(str) == Strip(CollapseWs(StripNonAlpha(Lower(str))))

---------------------------------------------------------------------------
(* Artifacts                                                               *)
(*                                                                         *)
(* The fitted vectorizers, the classifier and the job-vector matrix are    *)
(* opaque library objects.  A vectorizer is modelled by the number of its  *)
(* output columns and one vocabulary term, "a", whose column is the first; *)
(* a matrix row by its cosine with that first axis (in units of 1e-5).     *)

NotLoaded == [loaded |-> FALSE]

\* the fixed object paths of lines 60-62, 66 and 71
Paths == {"models/tfidf_vectorizer.pkl", "models/supervised_vectorizer.pkl",
          "models/job_classifier.pkl", "models/job_metadata.csv",
          "models/job_vectors.npz"}

Vectorizer(d) == [loaded |-> TRUE, n_features |-> d]
Classifier(fitted) ==
    [loaded |-> TRUE, fitted |-> fitted, classes_ |-> <<"Design", "Engineering", "Sales">>]
Matrix(d, rows) == [loaded |-> TRUE, dim |-> d, rows |-> rows]

\* pd.read_csv of a table with the columns "Job Title" and "Job Description",
\* preceded by an "id" column when ids is given (line 67).  Row k carries the
\* values <<"title", k>> and <<"desc", k>>, so no two rows are alike.
CsvColumns(hasId) ==
    IF hasId THEN <<"id", "Job Title", "Job Description">>
    ELSE <<"Job Title", "Job Description">>

CsvRow(hasId, ids, k) ==
    [c \in (IF hasId THEN {"id"} ELSE {}) \cup {"Job Title", "Job Description"} |->
        CASE c = "id" -> ids[k]
          [] c = "Job Title" -> <<"title", k>>
          [] OTHER -> <<"desc", k>>]

\* a table with an id column holding ids
CsvWithIds(ids) ==
    [loaded |-> TRUE, columns |-> CsvColumns(TRUE),
     rows |-> [k \in 1..Len(ids) |-> CsvRow(TRUE, ids, k)]]

\* a table of m rows without an id column
CsvWithoutIds(m) ==
    [loaded |-> TRUE, columns |-> CsvColumns(FALSE),
     rows |-> [k \in 1..m |-> CsvRow(FALSE, <<>>, k)]]

Range(f) == {f[i] : i \in DOMAIN f}

Blob(content) == [state |-> "ok", content |-> content]
MissingBlob == [state |-> "missing"]
CorruptBlob == [state |-> "corrupt"]

\* a bucket holding the five artifacts
Bucket(uv, sv, clf, csv, npz) ==
    [credentials |-> TRUE,
     blobs |-> [p \in Paths |->
        CASE p = "models/tfidf_vectorizer.pkl" -> Blob(uv)
          [] p = "models/supervised_vectorizer.pkl" -> Blob(sv)
          [] p = "models/job_classifier.pkl" -> Blob(clf)
          [] p = "models/job_metadata.csv" -> Blob(csv)
          [] OTHER -> Blob(npz)]]

\* the bucket b with the object at path p replaced
WithBlob(b, p, blob) == [b EXCEPT !.blobs[p] = blob]

\* the buckets in which one step of the load fails: no credentials for
\* storage.Client(), or one object missing or not loadable
Broken(b) ==
    {[b EXCEPT !.credentials = FALSE]}
    \cup {WithBlob(b, p, MissingBlob) : p \in Paths}
    \cup {WithBlob(b, p, CorruptBlob) : p \in Paths}

---------------------------------------------------------------------------
(* Startup: the module-level code of lines 22-85                           *)

\* mutant: the exception is logged and swallowed, and the load goes on
OnLoadError_swallowed(next) == next

\* lines 83-85: any exception of the load is logged and re-raised as a
\* RuntimeError, which ends the import of the module
OnLoadError(next) == "aborted"

\* blob.download_as_bytes() and the deserialisation succeed (lines 55-57, 67, 73-74)
Loadable(p) == gcs.blobs[p].state = "ok"

\* load_pickle_from_gcs (lines 52-57)
load_pickle_from_gcs(p) == gcs.blobs[p].content

\* lines 45-50: the bucket name is checked and the client created
Connect ==
    /\ pc = "connect"
    /\ pc' = IF BUCKET_NAME = "" \/ ~gcs.credentials
             THEN OnLoadError("load_uv")
             ELSE "load_uv"
    /\ UNCHANGED <<BUCKET_NAME, API_TOKEN, gcs, unsupervised_vectorizer,
                   supervised_vectorizer, classifier, job_metadata, job_vectors,
                   conn, text, passes>>

\* line 60
LoadUnsupervised ==
    /\ pc = "load_uv"
    /\ IF Loadable("models/tfidf_vectorizer.pkl")
       THEN /\ unsupervised_vectorizer' = load_pickle_from_gcs("models/tfidf_vectorizer.pkl")
            /\ pc' = "load_sv"
       ELSE /\ pc' = OnLoadError("load_sv")
            /\ UNCHANGED unsupervised_vectorizer
    /\ UNCHANGED <<BUCKET_NAME, API_TOKEN, gcs, supervised_vectorizer, classifier,
                   job_metadata, job_vectors, conn, text, passes>>

\* line 61
LoadSupervised ==
    /\ pc = "load_sv"
    /\ IF Loadable("models/supervised_vectorizer.pkl")
       THEN /\ supervised_vectorizer' = load_pickle_from_gcs("models/supervised_vectorizer.pkl")
            /\ pc' = "load_clf"
       ELSE /\ pc' = OnLoadError("load_clf")
            /\ UNCHANGED supervised_vectorizer
    /\ UNCHANGED <<BUCKET_NAME, API_TOKEN, gcs, unsupervised_vectorizer, classifier,
                   job_metadata, job_vectors, conn, text, passes>>

\* line 62
LoadClassifier ==
    /\ pc = "load_clf"
    /\ IF Loadable("models/job_classifier.pkl")
       THEN /\ classifier' = load_pickle_from_gcs("models/job_classifier.pkl")
            /\ pc' = "load_csv"
       ELSE /\ pc' = OnLoadError("load_csv")
            /\ UNCHANGED classifier
    /\ UNCHANGED <<BUCKET_NAME, API_TOKEN, gcs, unsupervised_vectorizer,
                   supervised_vectorizer, job_metadata, job_vectors, conn, text, passes>>

\* lines 65-67
LoadCsv ==
    /\ pc = "load_csv"
    /\ IF Loadable("models/job_metadata.csv")
       THEN /\ job_metadata' = gcs.blobs["models/job_metadata.csv"].content
            /\ pc' = "load_npz"
       ELSE /\ pc' = OnLoadError("load_npz")
            /\ UNCHANGED job_metadata
    /\ UNCHANGED <<BUCKET_NAME, API_TOKEN, gcs, unsupervised_vectorizer,
                   supervised_vectorizer, classifier, job_vectors, conn, text, passes>>

\* lines 70-74
LoadNpz ==
    /\ pc = "load_npz"
    /\ IF Loadable("models/job_vectors.npz")
       THEN /\ job_vectors' = gcs.blobs["models/job_vectors.npz"].content
            /\ pc' = "ensure_id"
       ELSE /\ pc' = OnLoadError("ensure_id")
            /\ UNCHANGED job_vectors
    /\ UNCHANGED <<BUCKET_NAME, API_TOKEN, gcs, unsupervised_vectorizer,
                   supervised_vectorizer, classifier, job_metadata, conn, text, passes>>

\* lines 78-79: reset_index(inplace=True) inserts the RangeIndex 0..n-1 as the
\* first column, which rename() then calls 'id'
reset_index(df) ==
    [df EXCEPT !.columns = <<"id">> \o df.columns,
               !.rows = [k \in 1..Len(df.rows) |->
                   [c \in {"id"} \cup DOMAIN df.rows[k] |->
                       IF c = "id" THEN k - 1 ELSE df.rows[k][c]]]]

\* lines 76-81, and the end of the import: the app starts to serve (209-211)
EnsureId ==
    /\ pc = "ensure_id"
    /\ job_metadata' = IF "id" \notin Range(job_metadata.columns)
                       THEN reset_index(job_metadata)
                       ELSE job_metadata
    /\ pc' = "serving"
    /\ UNCHANGED <<BUCKET_NAME, API_TOKEN, gcs, unsupervised_vectorizer,
                   supervised_vectorizer, classifier, job_vectors, conn, text, passes>>

Startup ==
    \/ Connect
    \/ LoadUnsupervised
    \/ LoadSupervised
    \/ LoadClassifier
    \/ LoadCsv
    \/ LoadNpz
    \/ EnsureId

---------------------------------------------------------------------------
(* Requests, routing and responses                                         *)

Methods == {"GET", "POST", "OPTIONS"}

\* the URL map built by the decorators of lines 122, 137, 142, 167, 184 and
\* 194; Flask adds OPTIONS to every rule
Rules ==
    [n \in {"/", "/healthcheck", "/recommend", "/predict-category", "/categories",
            "/jobs/<int:job_id>"} |->
        CASE n = "/" -> [endpoint |-> "root", methods |-> {"GET", "OPTIONS"}]
          [] n = "/healthcheck" -> [endpoint |-> "healthcheck", methods |-> {"GET", "OPTIONS"}]
          [] n = "/recommend" -> [endpoint |-> "recommend_jobs", methods |-> {"POST", "OPTIONS"}]
          [] n = "/predict-category" ->
                [endpoint |-> "predict_category", methods |-> {"POST", "OPTIONS"}]
          [] n = "/categories" ->
                [endpoint |-> "get_all_categories", methods |-> {"GET", "OPTIONS"}]
          [] OTHER -> [endpoint |-> "get_job_detail", methods |-> {"GET", "OPTIONS"}]]

NoEndpoint == "None"

\* request.endpoint: the endpoint of the matched rule, None when the path
\* matches no rule or the rule does not allow the method
Endpoint(req) ==
    IF req.path.rule \in DOMAIN Rules /\ req.method \in Rules[req.path.rule].methods
    THEN Rules[req.path.rule].endpoint
    ELSE NoEndpoint

Response(status, body) == [status |-> status, body |-> body]

\* jsonify({"detail": msg})
Detail(msg) == [type |-> "json", detail |-> msg]

\* the page werkzeug renders for an HTTPException
ErrorPage(status) == Response(status, [type |-> "html", page |-> status])

\* What the client gets when a view raises an exception that is not an
\* HTTPException: Flask's generic 500 page, or, under app.run(debug=True)
\* (line 211), the debugger's page with the traceback.
Unhandled(exc) ==
    {ErrorPage(500), Response(500, [type |-> "traceback", exception |-> exc])}

Outcome(resp, calls) == [resp |-> resp, calls |-> calls]

\* the outcomes of a view that raises exc after the calls
Raise(exc, calls) == {Outcome(r, calls) : r \in Unhandled(exc)}

---------------------------------------------------------------------------
(* JSON bodies                                                             *)

JNull == [t |-> "null"]
JNumber(n) == [t |-> "number", v |-> n]
JString(str) == [t |-> "string", v |-> str]
JArray(items) == [t |-> "array", v |-> items]
JObject(f) == [t |-> "object", v |-> f]

\* the characters of the two keys
KeyChars(k) ==
    IF k = "text" THEN <<"t", "e", "x", "t">>
    ELSE <<"d", "e", "s", "c", "r", "i", "p", "t", "i", "o", "n">>

\* Python's truth value of a decoded JSON value (the `not data` of lines 146, 171)
Falsy(data) ==
    \/ data.t = "null"
    \/ data.t = "number" /\ data.v = 0
    \/ data.t \in {"string", "array"} /\ data.v = <<>>
    \/ data.t = "object" /\ DOMAIN data.v = {}

IsSubstring(k, str) ==
    \E i \in 0..(Len(str) - Len(k)) : SubSeq(str, i + 1, i + Len(k)) = k

\* Python's `key in data` (lines 146, 171) for a dict (a key), a list (an
\* element) and a str (a substring); a number is not iterable (TypeError)
Contains(data, key) ==
    CASE data.t = "object" -> key \in DOMAIN data.v
      [] data.t = "array" ->
            \E i \in 1..Len(data.v) :
                data.v[i].t = "string" /\ data.v[i].v = KeyChars(key)
      [] data.t = "string" -> IsSubstring(KeyChars(key), data.v)
      [] OTHER -> FALSE

\* request.get_json() (lines 145, 170).  A body that is not valid JSON raises
\* BadRequest; a request whose content type is not JSON gives None or, from
\* Flask 2.1 on, raises UnsupportedMediaType.
get_json(body) ==
    CASE body.kind = "not json" ->
            {[ok |-> TRUE, value |-> JNull], [ok |-> FALSE, resp |-> ErrorPage(415)]}
      [] body.kind = "malformed" -> {[ok |-> FALSE, resp |-> ErrorPage(400)]}
      [] OTHER -> {[ok |-> TRUE, value |-> body.value]}

NoBody == [kind |-> "not json"]
Malformed == [kind |-> "malformed"]
Json(value) == [kind |-> "json", value |-> value]

---------------------------------------------------------------------------
(* The auth gate                                                           *)

\* f"Bearer {API_TOKEN}" (line 119)
Bearer(token) == <<"Bearer ", token>>

Unauthorized == Response(401, Detail("Unauthorized"))
None == [status |-> 0]

\* mutant: the header is only required to be present
check_auth_presence(req) ==
    IF req.method = "OPTIONS" THEN None
    ELSE IF Endpoint(req) \in {"root", "healthcheck"} THEN None
    ELSE IF "Authorization" \notin DOMAIN req.headers THEN Unauthorized
    ELSE None

\* mutant: the health check is not in the list of open endpoints
check_auth_root_only(req) ==
    IF req.method = "OPTIONS" THEN None
    ELSE IF Endpoint(req) \in {"root"} THEN None
    ELSE IF \/ "Authorization" \notin DOMAIN req.headers
            \/ req.headers["Authorization"] # Bearer(API_TOKEN)
         THEN Unauthorized
    ELSE None

\* check_auth (lines 109-120): None lets the request through
check_auth(req) ==
    IF req.method = "OPTIONS" THEN None
    ELSE IF Endpoint(req) \in {"root", "healthcheck"} THEN None
    ELSE IF \/ "Authorization" \notin DOMAIN req.headers
            \/ req.headers["Authorization"] # Bearer(API_TOKEN)
         THEN Unauthorized
    ELSE None

---------------------------------------------------------------------------
(* The library calls of the views                                          *)

\* vectorizer.transform([text]) (lines 150, 177): one row, with the count of
\* the vocabulary term "a" among the space-separated tokens of the text
transform(vectorizer, str) ==
    [dim |-> vectorizer.n_features,
     tf |-> Cardinality({i \in 1..Len(str) :
                /\ str[i] = "a"
                /\ (i = 1 \/ str[i - 1] = " ")
                /\ (i = Len(str) \/ str[i + 1] = " ")})]

\* cosine_similarity(vector, job_vectors) accepts the two arrays
\* (check_pairwise_arrays: same number of columns, at least one row)
Comparable(vector, matrix) == vector.dim = matrix.dim /\ Len(matrix.rows) > 0

\* cosine_similarity(vector, job_vectors).flatten() (line 151), 0-based: a
\* zero vector has similarity 0 with every row
cosine_similarity(vector, matrix) ==
    [i \in 0..(Len(matrix.rows) - 1) |->
        IF vector.tf = 0 THEN 0 ELSE matrix.rows[i + 1]]

\* similarities.argsort(): the permutations of the indices that sort the
\* scores ascending.  The order of equal scores is not fixed (the default
\* sort kind is not stable), so every such permutation is one.
RECURSIVE Argsort(_, _)
Argsort(sims, idxs) ==
    IF idxs = {} THEN {<<>>}
    ELSE LET least == {i \in idxs : \A j \in idxs : sims[i] <= sims[j]}
         IN  UNION {{<<i>> \o rest : rest \in Argsort(sims, idxs \ {i})} : i \in least}

\* the number of indices kept by the slice of line 152
TopK == 5

\* mutant: the [::-1] is forgotten, the indices stay in ascending order
TopIndices_unreversed(order) ==
    SubSeq(order, IF Len(order) > TopK THEN Len(order) - TopK + 1 ELSE 1, Len(order))

\* order[-5:][::-1] (line 152): the last five indices, reversed
TopIndices(order) ==
    LET from == IF Len(order) > TopK THEN Len(order) - TopK + 1 ELSE 1
        kept == SubSeq(order, from, Len(order))
    IN  [i \in 1..Len(kept) |-> kept[Len(kept) + 1 - i]]

\* round(x, 4) (line 160) of a score in units of 1e-5, in units of 1e-4
Round4(x) ==
    LET q == x \div 10
        r == x % 10
    IN  IF r < 5 THEN q
        ELSE IF r > 5 THEN q + 1
        ELSE IF q % 2 = 0 THEN q ELSE q + 1

\* row._asdict().get(column, default) (lines 158-159) on a row of
\* itertuples(index=False): the namedtuple renames every column whose name
\* is not an identifier to its position, so such a column is never found
AsdictGet(row, column, default) ==
    IF column \in DOMAIN row /\ column \notin {"Job Title", "Job Description"}
    THEN row[column]
    ELSE default

\* classifier.predict(vec)[0] (line 178)
predict(clf, vec) == clf.classes_[(vec.tf % Len(clf.classes_)) + 1]

\* sorted(list(classifier.classes_)) (line 188): classes_ is kept sorted by
\* the classifier
sorted(classes) == classes

---------------------------------------------------------------------------
(* The views.  Each gives the set of its outcomes: the response and the     *)
(* components it called.                                                   *)

MissingKey(key) ==
    IF key = "text" THEN "Missing 'text' in request body"
    ELSE "Missing 'description' in request body"

\* lines 125-135
root == {Outcome(Response(200, [type |-> "json", message |-> "JobMate ML API is running"]), {})}

\* line 140
healthcheck == {Outcome(Response(200, [type |-> "json", status |-> "ok"]), {})}

\* lines 155-163
Recommendation(sims, idx) ==
    LET row == job_metadata.rows[idx + 1]
    IN  [job_id |-> row["id"],
         job_title |-> AsdictGet(row, "Job Title", "N/A"),
         description |-> AsdictGet(row, "Job Description", ""),
         similarity_score |-> Round4(sims[idx])]

\* lines 149-165, for the value of data["text"]
Rank(raw) ==
    IF raw.t # "string" THEN Raise("AttributeError", {"basic_preprocess"})
    ELSE
    LET vector == transform(unsupervised_vectorizer, basic_preprocess(raw.v))
        called == {"basic_preprocess", "unsupervised_vectorizer"}
    IN  IF ~Comparable(vector, job_vectors) THEN Raise("ValueError", called)
        ELSE
        LET similarities == cosine_similarity(vector, job_vectors)
        IN  UNION {
              LET top_indices == TopIndices(order)
              IN  IF \E i \in 1..Len(top_indices) : top_indices[i] >= Len(job_metadata.rows)
                  THEN Raise("IndexError", called)
                  ELSE {Outcome(Response(200,
                          [type |-> "json",
                           recommendations |->
                              [i \in 1..Len(top_indices) |->
                                  Recommendation(similarities, top_indices[i])]]),
                          called)}
              : order \in Argsort(similarities, DOMAIN similarities)}

\* lines 145-149 and 170-174: the body is read and checked for the key, and
\* the value of the key is looked up.  Either the view ends here (stop, with
\* its outcomes) or it goes on with the value (raw).
Validated(body, key) ==
    {IF ~g.ok THEN [stop |-> TRUE, outcomes |-> {Outcome(g.resp, {})}]
     ELSE LET data == g.value
              missing == {Outcome(Response(400, Detail(MissingKey(key))), {})}
          IN  IF Falsy(data) THEN [stop |-> TRUE, outcomes |-> missing]
              ELSE IF data.t = "number"
                   THEN [stop |-> TRUE, outcomes |-> Raise("TypeError", {})]
              ELSE IF ~Contains(data, key) THEN [stop |-> TRUE, outcomes |-> missing]
              ELSE IF data.t # "object"
                   THEN [stop |-> TRUE, outcomes |-> Raise("AttributeError", {})]
              ELSE [stop |-> FALSE, raw |-> data.v[key]]
     : g \in get_json(body)}

\* recommend_jobs (lines 142-165)
recommend_jobs(req) ==
    UNION {IF v.stop THEN v.outcomes ELSE Rank(v.raw) : v \in Validated(req.body, "text")}

\* lines 174-182, for the value of data["description"]: an exception of
\* transform or predict is caught, one of basic_preprocess is not
Predict(raw) ==
    IF raw.t # "string" THEN Raise("AttributeError", {"basic_preprocess"})
    ELSE IF ~classifier.fitted
         THEN {Outcome(Response(500, Detail("Internal Server Error")),
                       {"basic_preprocess", "supervised_vectorizer", "classifier"})}
         ELSE {Outcome(Response(200,
                   [type |-> "json",
                    predicted_category |->
                        predict(classifier,
                                transform(supervised_vectorizer, basic_preprocess(raw.v)))]),
                   {"basic_preprocess", "supervised_vectorizer", "classifier"})}

\* predict_category (lines 167-182)
predict_category(req) ==
    UNION {IF v.stop THEN v.outcomes ELSE Predict(v.raw) :
           v \in Validated(req.body, "description")}

\* get_all_categories (lines 184-192): an unfitted classifier has no classes_
get_all_categories ==
    IF ~classifier.fitted
    THEN {Outcome(Response(500, Detail("Internal Server Error")), {"classifier"})}
    ELSE {Outcome(Response(200, [type |-> "json", categories |-> sorted(classifier.classes_)]),
                  {"classifier"})}

\* mutant: the row is taken by position instead of by the value of its id
get_job_detail_by_position(job_id) ==
    IF job_id + 1 \notin DOMAIN job_metadata.rows
    THEN {Outcome(Response(404, Detail("Job not found")), {})}
    ELSE {Outcome(Response(200, [type |-> "json", record |-> job_metadata.rows[job_id + 1]]), {})}

\* get_job_detail (lines 194-204)
get_job_detail(job_id) ==
    LET job == SelectSeq(job_metadata.rows, LAMBDA row : row["id"] = job_id)
    IN  IF job = <<>>
        THEN {Outcome(Response(404, Detail("Job not found")), {})}
        ELSE {Outcome(Response(200, [type |-> "json", record |-> job[1]]), {})}

---------------------------------------------------------------------------
(* Serving a request: one worker thread per request in flight              *)

Idle == [stage |-> "idle"]

Done(req, outcome) ==
    [stage |-> "done", req |-> req, resp |-> outcome.resp, calls |-> outcome.calls]

Untouched == <<pc, BUCKET_NAME, gcs, text, passes>>

\* a request arrives and is routed; the server runs only once the import of
\* the module has ended (app.run is line 211, after the load)
Receive(w, requests) ==
    /\ pc = "serving"
    /\ conn[w].stage = "idle"
    /\ \E req \in requests :
          conn' = [conn EXCEPT ![w] = [stage |-> "before_request", req |-> req]]
    /\ UNCHANGED <<Untouched, artifacts>>

\* @app.before_request (line 109): a value other than None is the response
BeforeRequest(w) ==
    /\ conn[w].stage = "before_request"
    /\ LET rv == check_auth(conn[w].req)
       IN  conn' = [conn EXCEPT ![w] =
              IF rv = None
              THEN [stage |-> "dispatch", req |-> conn[w].req]
              ELSE Done(conn[w].req, Outcome(rv, {}))]
    /\ UNCHANGED <<Untouched, artifacts>>

\* Flask's dispatch before the view: the routing error is raised, an OPTIONS
\* request gets the automatic response; None sends the request to its view
Routed(req) ==
    IF Endpoint(req) = NoEndpoint
    THEN ErrorPage(IF req.path.rule \in DOMAIN Rules THEN 405 ELSE 404)
    ELSE IF req.method = "OPTIONS"
         THEN Response(200, [type |-> "options"])
         ELSE None

Dispatch(w) ==
    /\ conn[w].stage = "dispatch"
    /\ LET rv == Routed(conn[w].req)
       IN  conn' = [conn EXCEPT ![w] =
              IF rv = None
              THEN [stage |-> "view", req |-> conn[w].req]
              ELSE Done(conn[w].req, Outcome(rv, {}))]
    /\ UNCHANGED <<Untouched, artifacts>>

\* the view of the endpoint runs and its return value is the response
RunView(w, endpoint, outcomes) ==
    /\ conn[w].stage = "view"
    /\ Endpoint(conn[w].req) = endpoint
    /\ \E o \in outcomes :
          conn' = [conn EXCEPT ![w] =
                      Done(conn[w].req, Outcome(o.resp, o.calls \cup {endpoint}))]

Root(w) ==
    /\ RunView(w, "root", root)
    /\ UNCHANGED <<Untouched, artifacts>>

Healthcheck(w) ==
    /\ RunView(w, "healthcheck", healthcheck)
    /\ UNCHANGED <<Untouched, artifacts>>

RecommendJobs(w) ==
    /\ RunView(w, "recommend_jobs", recommend_jobs(conn[w].req))
    /\ UNCHANGED <<Untouched, artifacts>>

PredictCategory(w) ==
    /\ RunView(w, "predict_category", predict_category(conn[w].req))
    /\ UNCHANGED <<Untouched, artifacts>>

GetAllCategories(w) ==
    /\ RunView(w, "get_all_categories", get_all_categories)
    /\ UNCHANGED <<Untouched, artifacts>>

\* mutant: the filter of line 198 is applied to the shared table itself
GetJobDetail_inplace(w) ==
    /\ RunView(w, "get_job_detail", get_job_detail(conn[w].req.path.job_id))
    /\ job_metadata' =
          [job_metadata EXCEPT !.rows =
              SelectSeq(job_metadata.rows,
                        LAMBDA row : row["id"] = conn[w].req.path.job_id)]
    /\ UNCHANGED <<Untouched, API_TOKEN, unsupervised_vectorizer,
                   supervised_vectorizer, classifier, job_vectors>>

GetJobDetail(w) ==
    /\ RunView(w, "get_job_detail", get_job_detail(conn[w].req.path.job_id))
    /\ UNCHANGED <<Untouched, artifacts>>

\* the response is sent and the worker is free again
Reply(w) ==
    /\ conn[w].stage = "done"
    /\ conn' = [conn EXCEPT ![w] = Idle]
    /\ UNCHANGED <<Untouched, artifacts>>

Serve(w, requests) ==
    \/ Receive(w, requests)
    \/ BeforeRequest(w)
    \/ Dispatch(w)
    \/ Root(w)
    \/ Healthcheck(w)
    \/ RecommendJobs(w)
    \/ PredictCategory(w)
    \/ GetAllCategories(w)
    \/ GetJobDetail(w)
    \/ Reply(w)

---------------------------------------------------------------------------
(* The server specification: one worker, every kind of request, a bucket   *)
(* with two jobs and a fitted or an unfitted classifier, or a broken one.  *)

ConfiguredToken == "default_token"    \* line 23

NoHeaders == [h \in {} |-> <<>>]
Authorization(value) == [h \in {"Authorization"} |-> value]

\* no header, the right one, the token without its scheme, another token
HeaderSets ==
    {NoHeaders, Authorization(Bearer(ConfiguredToken)),
     Authorization(<<ConfiguredToken>>), Authorization(Bearer("other"))}

\* two resume texts: one with the vocabulary term, one that normalizes to ""
Texts == {<<"B", "!", " ", "a">>, <<"7">>}

Field(key, value) == JObject([k \in {key} |-> value])

\* the JSON values sent to the two POST routes
JsonValues ==
    {JNull, JNumber(5), JObject([k \in {} |-> JNull])}
    \cup {Field(key, JString(t)) : key \in {"text", "description"}, t \in Texts}
    \cup {Field(key, JNumber(5)) : key \in {"text", "description"}}
    \cup {JArray(<<JString(KeyChars(key))>>) : key \in {"text", "description"}}
    \cup {JString(KeyChars(key)) : key \in {"text", "description"}}

Bodies == {NoBody, Malformed} \cup {Json(v) : v \in JsonValues}

Path(rule, job_id) == [rule |-> rule, job_id |-> job_id]

\* the paths of the six rules, with the job ids given, and a path of no rule
PathsWith(job_ids) ==
    {Path(n, 0) : n \in (DOMAIN Rules \ {"/jobs/<int:job_id>"}) \cup {"/unknown"}}
    \cup {Path("/jobs/<int:job_id>", k) : k \in job_ids}

Request(method, path, headers, body) ==
    [method |-> method, path |-> path, headers |-> headers, body |-> body]

\* a body is sent with the POST requests to the two routes that read one
RequestsWith(paths, headers, bodies) ==
    {Request(m, p, h, NoBody) : m \in Methods, p \in paths, h \in headers}
    \cup {Request("POST", Path(n, 0), h, b) :
            n \in {"/recommend", "/predict-category"}, h \in headers, b \in bodies}

Requests == RequestsWith(PathsWith({1, 7}), HeaderSets, Bodies)

FixtureMatrix == Matrix(2, <<33334, 90000>>)

Fixture(fitted) ==
    Bucket(Vectorizer(2), Vectorizer(2), Classifier(fitted), CsvWithoutIds(2), FixtureMatrix)

InitWith(buckets, workers) ==
    /\ pc = "connect"
    /\ BUCKET_NAME \in {"", "jobmate-models"}
    /\ API_TOKEN = ConfiguredToken
    /\ gcs \in buckets
    /\ unsupervised_vectorizer = NotLoaded /\ supervised_vectorizer = NotLoaded
    /\ classifier = NotLoaded /\ job_metadata = NotLoaded /\ job_vectors = NotLoaded
    /\ conn = [w \in workers |-> Idle]
    /\ text = <<>> /\ passes = <<>>

Init == InitWith({Fixture(TRUE), Fixture(FALSE)} \cup Broken(Fixture(TRUE)), {1})

Next == Startup \/ \E w \in {1} : Serve(w, Requests)

Spec == Init /\ [][Next]_vars

InFlight == {w \in DOMAIN conn : conn[w].stage # "idle"}
Answered == {w \in DOMAIN conn : conn[w].stage = "done"}

Guarded == {"recommend_jobs", "predict_category", "get_all_categories", "get_job_detail"}

HasValidToken(req) ==
    /\ "Authorization" \in DOMAIN req.headers
    /\ req.headers["Authorization"] = Bearer(API_TOKEN)

Is(resp, status, detail) ==
    /\ resp.status = status
    /\ resp.body.type = "json"
    /\ "detail" \in DOMAIN resp.body
    /\ resp.body.detail = detail

\* C1 as stated: every request matched to one of the four guarded routes
\* without the exact header is answered 401 {"detail": "Unauthorized"}, and
\* no view runs for it.
C1_AsStated ==
    \A w \in InFlight :
        (Endpoint(conn[w].req) \in Guarded /\ ~HasValidToken(conn[w].req))
        => /\ conn[w].stage # "view"
           /\ conn[w].stage = "done"
              => Is(conn[w].resp, 401, "Unauthorized") /\ conn[w].calls = {}

\* C1, amended: the same for every request whose method is not OPTIONS; an
\* OPTIONS request is let through by the gate, and no view runs for it either.
C1_GateRejects ==
    \A w \in InFlight :
        (Endpoint(conn[w].req) \in Guarded /\ ~HasValidToken(conn[w].req))
        => /\ conn[w].stage # "view"
           /\ conn[w].stage = "done" => conn[w].calls = {}
           /\ (conn[w].stage = "done" /\ conn[w].req.method # "OPTIONS")
              => Is(conn[w].resp, 401, "Unauthorized")

\* a POST /recommend with a well-formed body and the token without its scheme
\* has been answered 401
C1_Witness ==
    \E w \in Answered :
        /\ conn[w].req.method = "POST"
        /\ conn[w].req.path.rule = "/recommend"
        /\ conn[w].req.headers = Authorization(<<ConfiguredToken>>)
        /\ conn[w].req.body.kind = "json"
        /\ conn[w].resp.status = 401

\* C2: a GET of / or /healthcheck without the right header passes the gate
\* and is answered 200, never 401.
C2_OpenRoutes ==
    \A w \in InFlight :
        (/\ conn[w].req.method = "GET"
         /\ conn[w].req.path.rule \in {"/", "/healthcheck"}
         /\ ~HasValidToken(conn[w].req))
        => /\ conn[w].stage \in {"before_request", "dispatch", "view", "done"}
           /\ conn[w].stage = "done"
              => conn[w].resp.status = 200 /\ conn[w].calls # {}

\* a GET /healthcheck without any header has been answered by its view
C2_Witness ==
    \E w \in Answered :
        /\ conn[w].req.method = "GET"
        /\ conn[w].req.path.rule = "/healthcheck"
        /\ conn[w].req.headers = NoHeaders
        /\ conn[w].resp.status = 200
        /\ "healthcheck" \in conn[w].calls

BodyRoutes == {"/recommend", "/predict-category"}
RequiredKey(rule) == IF rule = "/recommend" THEN "text" ELSE "description"
Components == {"basic_preprocess", "unsupervised_vectorizer", "supervised_vectorizer",
               "classifier"}

\* the body is malformed, or it is not an object with the key as a field
LacksField(body, key) ==
    \/ body.kind # "json"
    \/ body.value.t # "object"
    \/ key \notin DOMAIN body.value.v

\* C5: an authorized POST to /recommend or /predict-category whose body is
\* malformed or lacks the required key is answered 400 with
\* {"detail": "Missing '<key>' in request body"}, and neither the normalizer,
\* a vectorizer nor the classifier is called.
C5_MissingKey ==
    \A w \in Answered :
        LET req == conn[w].req
        IN  (/\ req.method = "POST"
             /\ req.path.rule \in BodyRoutes
             /\ HasValidToken(req)
             /\ LacksField(req.body, RequiredKey(req.path.rule)))
            => /\ Is(conn[w].resp, 400, MissingKey(RequiredKey(req.path.rule)))
               /\ conn[w].calls \cap Components = {}

PassedValidation(req) ==
    /\ req.body.kind = "json"
    /\ ~Falsy(req.body.value)
    /\ req.body.value.t # "number"
    /\ Contains(req.body.value, RequiredKey(req.path.rule))

\* C8: for an authorized request to /predict-category that passed the check
\* of its body, to /categories or to /jobs/{id}, a response other than a
\* success or a 404 is the 500 {"detail": "Internal Server Error"}: every
\* exception is caught in the view, and the client sees nothing of it.
C8_ExceptionsCaught ==
    \A w \in Answered :
        LET req == conn[w].req
        IN  (/\ Endpoint(req) \in {"predict_category", "get_all_categories", "get_job_detail"}
             /\ req.method # "OPTIONS"
             /\ HasValidToken(req)
             /\ Endpoint(req) = "predict_category" => PassedValidation(req))
            => \/ conn[w].resp.status \in {200, 404}
               \/ Is(conn[w].resp, 500, "Internal Server Error")

Loaded ==
    /\ unsupervised_vectorizer.loaded /\ supervised_vectorizer.loaded
    /\ classifier.loaded /\ job_metadata.loaded /\ job_vectors.loaded

Intact(bucket) == bucket.credentials /\ \A p \in Paths : bucket.blobs[p].state = "ok"

\* what the module-level code has assigned when it is at each position
LoadedAt(position) ==
    /\ position \notin {"connect", "aborted"} => (BUCKET_NAME # "" /\ gcs.credentials)
    /\ position \in {"load_sv", "load_clf", "load_csv", "load_npz", "ensure_id", "serving"}
       => unsupervised_vectorizer.loaded
    /\ position \in {"load_clf", "load_csv", "load_npz", "ensure_id", "serving"}
       => supervised_vectorizer.loaded
    /\ position \in {"load_csv", "load_npz", "ensure_id", "serving"} => classifier.loaded
    /\ position \in {"load_npz", "ensure_id", "serving"} => job_metadata.loaded
    /\ position \in {"ensure_id", "serving"} => job_vectors.loaded

\* C9: the load is sequential and a request is in flight only when it has
\* ended with the five artifacts loaded; with the bucket name unset or a
\* failing load step the process never serves.
C9_LoadBeforeServe ==
    /\ InFlight # {} => pc = "serving"
    /\ LoadedAt(pc)
    /\ pc = "serving" => Loaded
    /\ (BUCKET_NAME = "" \/ ~Intact(gcs)) => (pc # "serving" /\ InFlight = {})
    /\ pc = "aborted" => InFlight = {}

\* the load has ended and a request has been answered
C9_Witness == pc = "serving" /\ Loaded /\ Answered # {}

\* the load has been aborted by a missing matrix, after the other four
\* artifacts were loaded
C9_WitnessAbort ==
    /\ pc = "aborted"
    /\ gcs.blobs["models/job_vectors.npz"].state = "missing"
    /\ job_metadata.loaded /\ ~job_vectors.loaded

---------------------------------------------------------------------------
(* The concurrent specification: two worker threads serve requests to      *)
(* every route at the same time.                                           *)

ConcRequests ==
    RequestsWith(PathsWith({1, 7}),
                 {NoHeaders, Authorization(Bearer(ConfiguredToken))},
                 {Json(JNull)}
                 \cup {Json(Field(key, JString(<<"B", "!", " ", "a">>))) :
                          key \in {"text", "description"}})

InitConc == InitWith({Fixture(TRUE)} \cup Broken(Fixture(TRUE)), {1, 2})

NextConc == Startup \/ \E w \in {1, 2} : Serve(w, ConcRequests)

SpecConc == InitConc /\ [][NextConc]_vars

\* the outcomes of the view of the request's endpoint
ViewOf(req) ==
    CASE Endpoint(req) = "root" -> root
      [] Endpoint(req) = "healthcheck" -> healthcheck
      [] Endpoint(req) = "recommend_jobs" -> recommend_jobs(req)
      [] Endpoint(req) = "predict_category" -> predict_category(req)
      [] Endpoint(req) = "get_all_categories" -> get_all_categories
      [] OTHER -> get_job_detail(req.path.job_id)

\* the responses the request gets when it is served alone: the gate, the
\* dispatch and the view, one after the other
AloneResponses(req) ==
    IF check_auth(req) # None THEN {check_auth(req)}
    ELSE IF Routed(req) # None THEN {Routed(req)}
    ELSE {o.resp : o \in ViewOf(req)}

\* C10: once the server serves, no step of the gate or of a view changes the
\* token or a loaded artifact, and whatever the other worker does meanwhile,
\* a request is answered as it would be when served alone.
C10_ReadOnly ==
    /\ [](\A w \in Answered : conn[w].resp \in AloneResponses(conn[w].req))
    /\ [][pc = "serving" => artifacts' = artifacts]_vars

\* a job lookup has been answered while the other worker, which received a
\* lookup of another id, is still in its view
C10_Witness ==
    /\ conn[1].stage = "done" /\ conn[1].req.path = Path("/jobs/<int:job_id>", 1)
    /\ conn[1].resp.status = 200
    /\ conn[2].stage = "view" /\ conn[2].req.path = Path("/jobs/<int:job_id>", 7)

---------------------------------------------------------------------------
(* The ranking specification: authorized POST /recommend requests against  *)
(* any matrix of up to MaxJobs rows, with two scores that round to the     *)
(* same value and a third one, a vectorizer with as many columns as the    *)
(* matrix or not, and a metadata table with as many rows, one less or one  *)
(* more.                                                                   *)

Scores == {33331, 33334, 90000}

RankBucket(rows, m, d) ==
    Bucket(Vectorizer(2), Vectorizer(2), Classifier(TRUE), CsvWithoutIds(m), Matrix(d, rows))

RankRequests ==
    {Request("POST", Path("/recommend", 0), Authorization(Bearer(ConfiguredToken)),
             Json(Field("text", JString(<<"B", "!", " ", "a">>))))}

InitRank ==
    \E rows \in SeqsUpTo(Scores, MaxJobs) :
        \E m \in {Len(rows) - 1, Len(rows), Len(rows) + 1} \cap Nat, d \in {2, 3} :
            InitWith({RankBucket(rows, m, d)}, {1})

NextRank ==
    \/ Startup
    \/ \E w \in {1} :
          \/ Receive(w, RankRequests)
          \/ BeforeRequest(w)
          \/ Dispatch(w)
          \/ RecommendJobs(w)
          \/ Reply(w)

SpecRank == InitRank /\ [][NextRank]_vars

Min(a, b) == IF a < b THEN a ELSE b

\* an authorized POST /recommend whose body is an object with a string 'text'
IsResumeQuery(req) ==
    /\ req.method = "POST" /\ req.path.rule = "/recommend"
    /\ HasValidToken(req)
    /\ req.body.kind = "json" /\ req.body.value.t = "object"
    /\ "text" \in DOMAIN req.body.value.v
    /\ req.body.value.v["text"].t = "string"

\* exactly min(5, N) recommendations, never more than 5, with scores that do
\* not increase from the first to the last
Ranked(resp) ==
    /\ resp.status = 200
    /\ resp.body.type = "json" /\ "recommendations" \in DOMAIN resp.body
    /\ LET recs == resp.body.recommendations
       IN  /\ Len(recs) = Min(5, Len(job_vectors.rows))
           /\ Len(recs) <= 5
           /\ \A i \in 1..(Len(recs) - 1) :
                 recs[i].similarity_score >= recs[i + 1].similarity_score

\* C3 as stated: for any resume text and any matrix of N rows the answer is
\* a list of min(5, N) recommendations in non-increasing order of score.
C3_AsStated ==
    \A w \in Answered : IsResumeQuery(conn[w].req) => Ranked(conn[w].resp)

\* the artifacts fit: the vectorizer has the columns of the matrix, the
\* matrix has a row, and the metadata table has a row for each of its rows
Aligned ==
    /\ unsupervised_vectorizer.n_features = job_vectors.dim
    /\ Len(job_vectors.rows) >= 1
    /\ Len(job_metadata.rows) >= Len(job_vectors.rows)

\* C3, amended: the list is as stated whenever the artifacts fit, and
\* whenever the answer is a 200 at all; otherwise the view raises.
C3_Ranked ==
    \A w \in Answered :
        IsResumeQuery(conn[w].req)
        => /\ Aligned => Ranked(conn[w].resp)
           /\ conn[w].resp.status = 200 => Ranked(conn[w].resp)
           /\ conn[w].resp.status \in {200, 500}

\* six jobs, of which five are returned: two scores that round to 0.3333
\* come last, in either order of the equal rounded scores
C3_Witness ==
    \E w \in Answered :
        /\ IsResumeQuery(conn[w].req)
        /\ job_vectors.rows = <<33331, 90000, 33334, 90000, 33331, 90000>>
        /\ Len(job_metadata.rows) = 6
        /\ conn[w].resp.status = 200
        /\ Len(conn[w].resp.body.recommendations) = 5
        /\ conn[w].resp.body.recommendations[1].similarity_score = 9000
        /\ conn[w].resp.body.recommendations[4].similarity_score = 3333
        /\ conn[w].resp.body.recommendations[4].job_id = 2
        /\ conn[w].resp.body.recommendations[5].similarity_score = 3333

\* two jobs only: both are returned
C3_WitnessFew ==
    \E w \in Answered :
        /\ IsResumeQuery(conn[w].req)
        /\ Len(job_vectors.rows) = 2
        /\ conn[w].resp.status = 200
        /\ Len(conn[w].resp.body.recommendations) = 2

---------------------------------------------------------------------------
(* The lookup specification: authorized GET /jobs/{id} requests against    *)
(* any metadata table of up to MaxRows rows, with an id column (ids up to  *)
(* MaxId, repeated or not) or without one.                                 *)

LookupBuckets ==
    {Bucket(Vectorizer(2), Vectorizer(2), Classifier(TRUE), csv, FixtureMatrix) :
        csv \in {CsvWithoutIds(m) : m \in 0..MaxRows}
                \cup {CsvWithIds(ids) : ids \in SeqsUpTo(0..MaxId, MaxRows)}}

LookupRequests ==
    {Request("GET", Path("/jobs/<int:job_id>", k), Authorization(Bearer(ConfiguredToken)),
             NoBody) : k \in 0..(MaxId + 1)}

InitLookup == InitWith(LookupBuckets, {1})

NextLookup ==
    \/ Startup
    \/ \E w \in {1} :
          \/ Receive(w, LookupRequests)
          \/ BeforeRequest(w)
          \/ Dispatch(w)
          \/ GetJobDetail(w)
          \/ Reply(w)

SpecLookup == InitLookup /\ [][NextLookup]_vars

\* the table as the bucket holds it
StoredCsv == gcs.blobs["models/job_metadata.csv"].content

\* the records of the stored table with the id: the rows whose id column
\* holds it or, for a table without an id column, the row at that position
\* (counted from 0) together with the id
StoredRecords(job_id) ==
    IF "id" \in Range(StoredCsv.columns)
    THEN {row \in Range(StoredCsv.rows) : row["id"] = job_id}
    ELSE {[c \in {"id"} \cup DOMAIN StoredCsv.rows[k] |->
              IF c = "id" THEN job_id ELSE StoredCsv.rows[k][c]] :
          k \in {job_id + 1} \cap DOMAIN StoredCsv.rows}

C4_WitnessAbsent ==
    \E w \in Answered :
        /\ "id" \in Range(StoredCsv.columns)
        /\ [k \in 1..Len(StoredCsv.rows) |-> StoredCsv.rows[k]["id"]] = <<2, 0>>
        /\ conn[w].req.path.job_id = 1
        /\ conn[w].resp.status = 404

---------------------------------------------------------------------------
(* The normalizer specification: any string of the alphabet up to MaxLen   *)
(* is normalized, and its result is normalized again.                      *)

InitNorm ==
    /\ text \in SeqsUpTo(Alphabet, MaxLen)
    /\ passes = <<>>
    /\ pc = "normalizer"
    /\ BUCKET_NAME = "" /\ API_TOKEN = "" /\ gcs = <<>>
    /\ unsupervised_vectorizer = NotLoaded /\ supervised_vectorizer = NotLoaded
    /\ classifier = NotLoaded /\ job_metadata = NotLoaded /\ job_vectors = NotLoaded
    /\ conn = <<>>

\* basic_preprocess(text)
Normalize ==
    /\ pc = "normalizer" /\ passes = <<>>
    /\ passes' = <<basic_preprocess(text)>>
    /\ UNCHANGED <<pc, BUCKET_NAME, API_TOKEN, gcs, unsupervised_vectorizer,
                   supervised_vectorizer, classifier, job_metadata, job_vectors,
                   conn, text>>

\* basic_preprocess(basic_preprocess(text))
NormalizeAgain ==
    /\ pc = "normalizer" /\ Len(passes) = 1
    /\ passes' = Append(passes, basic_preprocess(passes[1]))
    /\ UNCHANGED <<pc, BUCKET_NAME, API_TOKEN, gcs, unsupervised_vectorizer,
                   supervised_vectorizer, classifier, job_metadata, job_vectors,
                   conn, text>>

NextNorm == Normalize \/ NormalizeAgain

SpecNorm == InitNorm /\ [][NextNorm]_vars

\* C6: basic_preprocess is idempotent: normalizing a normalized string
\* returns it unchanged.
C6_Idempotent == Len(passes) = 2 => passes[2] = passes[1]

\* a string that the normalizer changes (a digit between two words, so that
\* removal leaves a run of two spaces for the collapse) has been normalized twice
C6_Witness ==
    /\ Len(passes) = 2
    /\ text = <<"a", " ", "7", "\t", "B">>
    /\ passes[1] = <<"a", " ", "b">>

\* C7: the output is made of a-z and the space only, with no two adjacent
\* spaces and no leading or trailing space (and there is an output for every
\* input, the empty string included).
C7_OutputShape ==
    \A k \in 1..Len(passes) :
        LET out == passes[k]
        IN  /\ \A i \in 1..Len(out) : out[i] \in Letters \cup {" "}
            /\ \A i \in 1..(Len(out) - 1) : ~(out[i] = " " /\ out[i + 1] = " ")
            /\ out # <<>> => (out[1] # " " /\ out[Len(out)] # " ")

\* an input with uppercase, punctuation, tab and newline around one word
C7_Witness ==
    /\ Len(passes) >= 1
    /\ text = <<"\t", "B", "!", "\n">>
    /\ passes[1] = <<"b">>

\* the empty string is normalized to the empty string
C7_WitnessEmpty == Len(passes) >= 1 /\ text = <<>> /\ passes[1] = <<>>

===========================================================================
